---- MODULE Spec2Model ----
(***************************************************************************)
(* A model of scripts/parse_pdf.py: the resume PDF fallback parser.        *)
(*                                                                         *)
(* A Python str is modelled as a sequence of one-character strings, so     *)
(* that strip, lower, split, join and the regular expressions of the       *)
(* source are computed character by character.  A value that may be None   *)
(* is a record that says whether it is there.                              *)
(***************************************************************************)
EXTENDS Integers, Sequences, FiniteSets, TLC

None == "None"

(***************************************************************************)
(* Characters                                                              *)
(***************************************************************************)
LowerLetters ==
    <<"a", "b", "c", "d", "e", "f", "g", "h", "i", "j", "k", "l", "m",
      "n", "o", "p", "q", "r", "s", "t", "u", "v", "w", "x", "y", "z">>

UpperLetters ==
    <<"A", "B", "C", "D", "E", "F", "G", "H", "I", "J", "K", "L", "M",
      "N", "O", "P", "Q", "R", "S", "T", "U", "V", "W", "X", "Y", "Z">>

Letters == {LowerLetters[k] : k \in 1..26} \cup {UpperLetters[k] : k \in 1..26}

DigitChars == {"0", "1", "2", "3", "4", "5", "6", "7", "8", "9"}

\* what str.strip(), str.split() and the regex class \s treat as whitespace
Whitespace == {" ", "\t", "\n", "\r"}

IsSpace(c) == c \in Whitespace

\* the regex class \d
IsDigit(c) == c \in DigitChars

\* the regex class \w
WordChars == Letters \cup DigitChars \cup {"_"}

IsWordChar(c) == c \in WordChars

\* str.lower() on one character
LowerChar(c) ==
    IF \E k \in 1..26 : UpperLetters[k] = c
    THEN LowerLetters[CHOOSE k \in 1..26 : UpperLetters[k] = c]
    ELSE c

SetMin(S) == CHOOSE x \in S : \A y \in S : x <= y

SetMax(S) == CHOOSE x \in S : \A y \in S : y <= x

(***************************************************************************)
(* str methods                                                             *)
(***************************************************************************)
\* s.strip()
strip(s) ==
    LET solid == {i \in 1..Len(s) : ~IsSpace(s[i])}
    IN  IF solid = {} THEN <<>> ELSE SubSeq(s, SetMin(solid), SetMax(solid))

\* s.lower()
lower(s) == [i \in 1..Len(s) |-> LowerChar(s[i])]

\* s.split(): the maximal runs of non-whitespace characters, in order
RECURSIVE split_whitespace(_)
split_whitespace(s) ==
    LET solid == {i \in 1..Len(s) : ~IsSpace(s[i])}
    IN  IF solid = {} THEN <<>>
        ELSE LET first == SetMin(solid)
                 gaps  == {i \in first..Len(s) : IsSpace(s[i])}
                 stop  == IF gaps = {} THEN Len(s) + 1 ELSE SetMin(gaps)
             IN  <<SubSeq(s, first, stop - 1)>>
                     \o split_whitespace(SubSeq(s, stop, Len(s)))

\* s.split('\n'): always at least one piece
RECURSIVE split_newline(_)
split_newline(s) ==
    LET breaks == {i \in 1..Len(s) : s[i] = "\n"}
    IN  IF breaks = {} THEN <<s>>
        ELSE LET n == SetMin(breaks)
             IN  <<SubSeq(s, 1, n - 1)>> \o split_newline(SubSeq(s, n + 1, Len(s)))

\* "\n".join(parts)
RECURSIVE join_newline(_)
join_newline(parts) ==
    IF parts = <<>> THEN <<>>
    ELSE IF Len(parts) = 1 THEN parts[1]
    ELSE parts[1] \o <<"\n">> \o join_newline(Tail(parts))

\* s[i..] starts with p
StartsAt(s, i, p) ==
    /\ i + Len(p) - 1 <= Len(s)
    /\ \A k \in 1..Len(p) : s[i + k - 1] = p[k]

AllSpace(s, from, to) == \A k \in from..to : IsSpace(s[k])

\* how many whitespace characters s starts with: what a leading \s* can consume
RECURSIVE LeadingSpaces(_)
LeadingSpaces(s) ==
    IF s = <<>> THEN 0
    ELSE IF ~IsSpace(Head(s)) THEN 0
    ELSE 1 + LeadingSpaces(Tail(s))

(***************************************************************************)
(* Section classifier                                                      *)
(***************************************************************************)
\* the dict SECTION_HEADERS, in its declared (iteration) order
SECTION_HEADERS ==
    << [section  |-> "summary",
        patterns |-> << <<"s", "u", "m", "m", "a", "r", "y">>,
                        <<"p", "r", "o", "f", "i", "l", "e">>,
                        <<"o", "b", "j", "e", "c", "t", "i", "v", "e">>,
                        <<"a", "b", "o", "u", "t", " ", "m", "e">> >>],
       [section  |-> "experience",
        patterns |-> << <<"e", "x", "p", "e", "r", "i", "e", "n", "c", "e">>,
                        <<"e", "m", "p", "l", "o", "y", "m", "e", "n", "t">>,
                        <<"w", "o", "r", "k", " ", "h", "i", "s", "t", "o", "r", "y">>,
                        <<"p", "r", "o", "f", "e", "s", "s", "i", "o", "n", "a", "l", " ",
                          "e", "x", "p", "e", "r", "i", "e", "n", "c", "e">> >>],
       [section  |-> "education",
        patterns |-> << <<"e", "d", "u", "c", "a", "t", "i", "o", "n">>,
                        <<"a", "c", "a", "d", "e", "m", "i", "c", " ",
                          "b", "a", "c", "k", "g", "r", "o", "u", "n", "d">>,
                        <<"q", "u", "a", "l", "i", "f", "i", "c", "a", "t", "i", "o", "n", "s">> >>],
       [section  |-> "skills",
        patterns |-> << <<"s", "k", "i", "l", "l", "s">>,
                        <<"t", "e", "c", "h", "n", "o", "l", "o", "g", "i", "e", "s">>,
                        <<"c", "o", "r", "e", " ",
                          "c", "o", "m", "p", "e", "t", "e", "n", "c", "i", "e", "s">>,
                        <<"t", "e", "c", "h", "n", "i", "c", "a", "l", " ",
                          "s", "k", "i", "l", "l", "s">> >>],
       [section  |-> "projects",
        patterns |-> << <<"p", "r", "o", "j", "e", "c", "t", "s">>,
                        <<"p", "e", "r", "s", "o", "n", "a", "l", " ",
                          "p", "r", "o", "j", "e", "c", "t", "s">>,
                        <<"k", "e", "y", " ", "p", "r", "o", "j", "e", "c", "t", "s">> >>] >>

\* "True headers are usually short": the token cap of is_header
MaxHeaderTokens == 4

\* re.match(rf'^\s*{pattern}\s*$', s): the pattern's characters are all literal
re_match_exact(pattern, s) ==
    \E lead \in 0..LeadingSpaces(s) :
        /\ StartsAt(s, lead + 1, pattern)
        /\ AllSpace(s, lead + Len(pattern) + 1, Len(s))

\* re.match(rf'^\s*{pattern}[:]?\s*$', s)
re_match_colon(pattern, s) ==
    \E lead \in 0..LeadingSpaces(s) :
        /\ StartsAt(s, lead + 1, pattern)
        /\ LET after == lead + Len(pattern) + 1
           IN  \/ AllSpace(s, after, Len(s))
               \/ /\ after <= Len(s)
                  /\ s[after] = ":"
                  /\ AllSpace(s, after + 1, Len(s))

\* a mutant of header_match: the pattern is searched for, not anchored to the line
header_match_unanchored(pattern, line_lower) ==
    \E at \in 1..Len(line_lower) : StartsAt(line_lower, at, pattern)

\* the condition of the inner if of is_header
header_match(pattern, line_lower) ==
    re_match_exact(pattern, line_lower) \/ re_match_colon(pattern, line_lower)

\* is_header(line): the first section, in declared order, one of whose patterns
\* matches the lowercased line while the line has at most four tokens
is_header(line) ==
    LET line_lower == lower(strip(line))
        short == Len(split_whitespace(line)) <= MaxHeaderTokens
        hits == {i \in 1..Len(SECTION_HEADERS) :
                    \E j \in 1..Len(SECTION_HEADERS[i].patterns) :
                        /\ header_match(SECTION_HEADERS[i].patterns[j], line_lower)
                        /\ short}
    IN  IF hits = {} THEN None ELSE SECTION_HEADERS[SetMin(hits)].section

(***************************************************************************)
(* The two regular expressions of the basics block                         *)
(***************************************************************************)
\* a re.search result: None, or the match with its group(0)
NoMatch == [matched |-> FALSE, group0 |-> <<>>]

Match(s, from, to) == [matched |-> TRUE, group0 |-> SubSeq(s, from, to)]

\* last index of the maximal run of InClass characters starting at i (i - 1: no run)
RunEnd(s, i, InClass(_)) ==
    LET stops == {k \in i..Len(s) : ~InClass(s[k])}
    IN  IF stops = {} THEN Len(s) ELSE SetMin(stops) - 1

\* the class [\w\.-]
EmailChars == WordChars \cup {".", "-"}

IsEmailChar(c) == c \in EmailChars

\* where the greedy match of [\w\.-]+@[\w\.-]+\.\w+ starting at i ends; 0: no match
\* at i.  The first run must reach the "@"; the second run backtracks to its last
\* "." that a \w follows.
email_match_end(s, i) ==
    LET a == RunEnd(s, i, IsEmailChar)
    IN  IF a < i \/ a + 1 > Len(s) THEN 0
        ELSE IF s[a + 1] # "@" THEN 0
        ELSE LET b    == RunEnd(s, a + 2, IsEmailChar)
                 dots == {d \in (a + 3)..b :
                            /\ s[d] = "."
                            /\ d + 1 <= Len(s)
                            /\ IsWordChar(s[d + 1])}
             IN  IF dots = {} THEN 0
                 ELSE RunEnd(s, SetMax(dots) + 1, IsWordChar)

\* re.search(r'[\w\.-]+@[\w\.-]+\.\w+', s): the leftmost match
email_search(s) ==
    LET starts == {i \in 1..Len(s) : email_match_end(s, i) > 0}
    IN  IF starts = {} THEN NoMatch
        ELSE Match(s, SetMin(starts), email_match_end(s, SetMin(starts)))

\* an optional single character of `set` at p: the position after it
OptChar(s, p, set) == IF p <= Len(s) /\ s[p] \in set THEN p + 1 ELSE p

\* \d{n} at p
DigitsAt(s, p, n) ==
    /\ p + n - 1 <= Len(s)
    /\ \A k \in p..(p + n - 1) : IsDigit(s[k])

\* the class [\s.-]
PhoneSeparators == Whitespace \cup {".", "-"}

\* where the match of \(?\d{3}\)?[\s.-]?\d{3}[\s.-]?\d{4} starting at i ends; 0: no
\* match at i.  No optional character is a digit, so skipping one that is present
\* never leads to a match.
phone_match_end(s, i) ==
    LET p1 == OptChar(s, i, {"("})
    IN  IF ~DigitsAt(s, p1, 3) THEN 0
        ELSE LET p2 == OptChar(s, p1 + 3, {")"})
                 p3 == OptChar(s, p2, PhoneSeparators)
             IN  IF ~DigitsAt(s, p3, 3) THEN 0
                 ELSE LET p4 == OptChar(s, p3 + 3, PhoneSeparators)
                      IN  IF DigitsAt(s, p4, 4) THEN p4 + 3 ELSE 0

\* re.search(r'\(?\d{3}\)?[\s.-]?\d{3}[\s.-]?\d{4}', s): the leftmost match
phone_search(s) ==
    LET starts == {i \in 1..Len(s) : phone_match_end(s, i) > 0}
    IN  IF starts = {} THEN NoMatch
        ELSE Match(s, SetMin(starts), phone_match_end(s, SetMin(starts)))

(***************************************************************************)
(* Structure builder                                                       *)
(***************************************************************************)
SectionKeys == {"basics", "summary", "experience", "education", "skills", "projects"}

\* current_section and section_buffers before the first line
InitialScan ==
    [current_section |-> "basics",
     section_buffers |-> [k \in SectionKeys |-> <<>>]]

\* a mutant of scan_line: the header line itself is kept as content of its section
scan_line_keeps_header(st, line) ==
    LET clean_line == strip(line)
        detected   == is_header(clean_line)
    IN  IF clean_line = <<>> THEN st
        ELSE IF detected # None
        THEN [st EXCEPT !.current_section = detected,
                        !.section_buffers[detected] = Append(@, clean_line)]
        ELSE [st EXCEPT !.section_buffers[st.current_section] = Append(@, clean_line)]

\* one iteration of "for line in lines" (Pass 1)
scan_line(st, line) ==
    LET clean_line == strip(line)
        detected   == is_header(clean_line)
    IN  IF clean_line = <<>> THEN st
        ELSE IF detected # None THEN [st EXCEPT !.current_section = detected]
        ELSE IF st.current_section \in DOMAIN st.section_buffers
        THEN [st EXCEPT !.section_buffers[st.current_section] = Append(@, clean_line)]
        ELSE st

\* the whole of Pass 1
RECURSIVE gather_lines(_, _)
gather_lines(st, lines) ==
    IF lines = <<>> THEN st
    ELSE gather_lines(scan_line(st, Head(lines)), Tail(lines))

\* a mutant of full_name_of: the last basics line is taken for the name
full_name_of_last(basics_buffer) ==
    IF basics_buffer # <<>> THEN basics_buffer[Len(basics_buffer)] ELSE <<>>

\* "Name is usually the first non-empty line": basics.full_name
full_name_of(basics_buffer) ==
    IF basics_buffer # <<>> THEN basics_buffer[1] ELSE <<>>

\* a mutant of text_dump_field: the dump is wrapped even when the buffer is empty
text_dump_field_always(buffer) == <<[text_dump |-> join_newline(buffer)]>>

\* [{"text_dump": "\n".join(buffer)}] if buffer else []
text_dump_field(buffer) ==
    IF buffer # <<>> THEN <<[text_dump |-> join_newline(buffer)]>> ELSE <<>>

\* resume_data as the function returns it, from the filled buffers
build_record(section_buffers, raw_text) ==
    LET basics_text == join_newline(section_buffers["basics"])
        email_match == email_search(basics_text)
        phone_match == phone_search(basics_text)
    IN  [basics |->
            [full_name |-> full_name_of(section_buffers["basics"]),
             email     |-> IF email_match.matched THEN email_match.group0 ELSE <<>>,
             phone     |-> IF phone_match.matched THEN phone_match.group0 ELSE <<>>,
             linkedin  |-> <<>>],
         summary    |-> join_newline(section_buffers["summary"]),
         experience |-> text_dump_field(section_buffers["experience"]),
         education  |-> text_dump_field(section_buffers["education"]),
         skills     |-> [technical |-> section_buffers["skills"],
                         tools     |-> <<>>,
                         soft      |-> <<>>],
         raw_text   |-> raw_text]

\* naive_structure_parser(raw_text): Pass 1 over the lines of the text, then the
\* record built from the buffers Pass 1 has filled
naive_structure_parser(raw_text) ==
    CHOOSE resume_data \in
        {build_record(scanned.section_buffers, raw_text) :
            scanned \in {gather_lines(InitialScan, split_newline(raw_text))}} : TRUE

(***************************************************************************)
(* The two extractors                                                      *)
(***************************************************************************)
\* extract_text_pdfplumber: "" without the library; otherwise the page texts that
\* are truthy, joined by newline.  A page's text is "" when extract_text gave
\* None or "".  (Opening an unreadable file raises: see main.)
extract_text_pdfplumber(library, pages) ==
    IF ~library THEN <<>>
    ELSE join_newline(SelectSeq(pages, LAMBDA page_text : page_text # <<>>))

\* the recognized_lines of extract_text_paddleocr, from ocr.ocr's per-page results:
\* a page is None or a list of lines [box, (text, confidence)]
NonePage == [is_none |-> TRUE]

OcrPage(page_lines) == [is_none |-> FALSE, lines |-> page_lines]

RECURSIVE recognized_lines(_)
recognized_lines(results) ==
    IF results = <<>> THEN <<>>
    ELSE LET page_res == Head(results)
         IN  (IF page_res.is_none THEN <<>>
              ELSE [k \in 1..Len(page_res.lines) |-> page_res.lines[k].text])
                 \o recognized_lines(Tail(results))

\* what extract_text_paddleocr returns when it does not raise
extract_text_paddleocr(results) == join_newline(recognized_lines(results))

(***************************************************************************)
(* main: constants                                                         *)
(***************************************************************************)
\* "If < 50 chars, it's likely an image"
OcrThreshold == 50

FAILED_EXTRACTION ==
    <<"F", "A", "I", "L", "E", "D", "_",
      "E", "X", "T", "R", "A", "C", "T", "I", "O", "N">>

\* os.path.join(task_dir, 'parsed_fallback.json')
OutPath == "/tmp/resume_tasks/<req_id>/parsed_fallback.json"

\* a mutant of ocr_fallback_needed: the text is measured without trimming it
ocr_fallback_needed_untrimmed(text) == Len(text) < OcrThreshold

\* a mutant of ocr_fallback_needed: the threshold itself falls back
ocr_fallback_needed_inclusive(text) == Len(strip(text)) <= OcrThreshold

\* the condition of main's if
ocr_fallback_needed(text) == Len(strip(text)) < OcrThreshold

\* 'paddleocr' if used_ocr else 'pdfplumber'
meta_method(ocr_used) == IF ocr_used THEN "paddleocr" ELSE "pdfplumber"

\* a mutant of structure_text: the record keeps the trimmed text as raw_text
structure_text_trimmed(text, ocr_used) ==
    [naive_structure_parser(text) EXCEPT !.raw_text = strip(text)]
        @@ [_meta_method |-> meta_method(ocr_used)]

\* step 3 of main: naive_structure_parser, then the _meta_method stamp
structure_text(text, ocr_used) ==
    naive_structure_parser(text) @@ [_meta_method |-> meta_method(ocr_used)]

(***************************************************************************)
(* Inputs                                                                  *)
(***************************************************************************)
MaxPages == 2

MaxOcrPages == 1

MaxLines == 3

\* at most n elements of S in a row
RECURSIVE SeqsUpTo(_, _)
SeqsUpTo(S, n) ==
    IF n = 0 THEN {<<>>}
    ELSE LET shorter == SeqsUpTo(S, n - 1)
         IN  shorter \cup {Append(q, e) : q \in shorter, e \in S}

\* "Jane Doe\njdo@example.com": 24 characters
PageContact ==
    <<"J", "a", "n", "e", " ", "D", "o", "e", "\n",
      "j", "d", "o", "@", "e", "x", "a", "m", "p", "l", "e", ".", "c", "o", "m">>

\* "Experience\nAcme Corp 2020": 25 characters
PageExperience ==
    <<"E", "x", "p", "e", "r", "i", "e", "n", "c", "e", "\n",
      "A", "c", "m", "e", " ", "C", "o", "r", "p", " ", "2", "0", "2", "0">>

\* "Education\nMIT, BSc, 2019  ": 26 characters, 24 once trimmed
PagePadded ==
    <<"E", "d", "u", "c", "a", "t", "i", "o", "n", "\n",
      "M", "I", "T", ",", " ", "B", "S", "c", ",", " ", "2", "0", "1", "9", " ", " ">>

\* what page.extract_text can give for a page: no text, or a text
PageTexts == {<<>>, PageContact, PageExperience, PagePadded}

\* the PDFs given to a run: readable with some pages, or unreadable
PdfFiles ==
    {[readable |-> TRUE, pages |-> pp] : pp \in SeqsUpTo(PageTexts, MaxPages)}
        \cup {[readable |-> FALSE, pages |-> <<>>]}

OcrLine(text) == [box |-> "box", text |-> text, confidence |-> 90]

\* one OCR page: "Jane Doe", "Skills", "Python, SQL"
OcrPageSkills ==
    OcrPage(<<
       OcrLine(<<"J", "a", "n", "e", " ", "D", "o", "e">>),
       OcrLine(<<"S", "k", "i", "l", "l", "s">>),
       OcrLine(<<"P", "y", "t", "h", "o", "n", ",", " ", "S", "Q", "L">>) >>)

\* another: "EXPERIENCE:", "Acme Corp", "  555.123.4567 "
OcrPageExperience ==
    OcrPage(<<
       OcrLine(<<"E", "X", "P", "E", "R", "I", "E", "N", "C", "E", ":">>),
       OcrLine(<<"A", "c", "m", "e", " ", "C", "o", "r", "p">>),
       OcrLine(<<" ", " ", "5", "5", "5", ".", "1", "2", "3", ".", "4", "5", "6", "7", " ">>) >>)

\* what ocr.ocr can return for a run
OcrResults == SeqsUpTo({NonePage, OcrPageSkills, OcrPageExperience}, MaxOcrPages)

\* a file that does not exist, and a file with its content
Absent == [exists |-> FALSE]

File(content) == [exists |-> TRUE, content |-> content]

\* a text an extractor has not returned, and one it has
NotReturned == [returned |-> FALSE]

Returned(value) == [returned |-> TRUE, value |-> value]

\* an ocr.txt left in the task directory by an earlier run with the same req_id
StaleTranscript ==
    <<"o", "l", "d", " ", "t", "r", "a", "n", "s", "c", "r", "i", "p", "t">>

\* an empty line
LineEmpty ==
    <<>>

\* a line of a space and a tab
LineBlank ==
    <<" ", "\t">>

\* "Jane Doe"
LineName ==
    <<"J", "a", "n", "e", " ", "D", "o", "e">>

\* "jane.doe@example.com"
LineEmail ==
    <<"j", "a", "n", "e", ".", "d", "o", "e", "@", "e", "x", "a", "m", "p", "l",
      "e", ".", "c", "o", "m">>

\* "Experience"
LineExperience ==
    <<"E", "x", "p", "e", "r", "i", "e", "n", "c", "e">>

\* "EDUCATION:"
LineEducationColon ==
    <<"E", "D", "U", "C", "A", "T", "I", "O", "N", ":">>

\* "  Skills"
LineSkillsIndented ==
    <<" ", " ", "S", "k", "i", "l", "l", "s">>

\* "My Work Experience Summary": four tokens
LineFourTokens ==
    <<"M", "y", " ", "W", "o", "r", "k", " ", "E", "x", "p", "e", "r", "i", "e",
      "n", "c", "e", " ", "S", "u", "m", "m", "a", "r", "y">>

\* "  Experience with PDF parsers and OCR  ": six tokens, indented
LineSixTokens ==
    <<" ", " ", "E", "x", "p", "e", "r", "i", "e", "n", "c", "e", " ", "w", "i",
      "t", "h", " ", "P", "D", "F", " ", "p", "a", "r", "s", "e", "r", "s", " ",
      "a", "n", "d", " ", "O", "C", "R", " ", " ">>

\* "Experience in Java"
LineStartsLikeHeader ==
    <<"E", "x", "p", "e", "r", "i", "e", "n", "c", "e", " ", "i", "n", " ", "J",
      "a", "v", "a">>

\* "(555) 123-4567"
LinePhone ==
    <<"(", "5", "5", "5", ")", " ", "1", "2", "3", "-", "4", "5", "6", "7">>

\* "Summary"
LineSummary ==
    <<"S", "u", "m", "m", "a", "r", "y">>

\* "Summary :"
LineSpaceBeforeColon ==
    <<"S", "u", "m", "m", "a", "r", "y", " ", ":">>

\* "Skills::"
LineTwoColons ==
    <<"S", "k", "i", "l", "l", "s", ":", ":">>

\* "About Me"
LineAboutMe ==
    <<"A", "b", "o", "u", "t", " ", "M", "e">>

\* "About  Me", two spaces
LineAboutMeWide ==
    <<"A", "b", "o", "u", "t", " ", " ", "M", "e">>

\* "Work History:"
LineWorkHistory ==
    <<"W", "o", "r", "k", " ", "H", "i", "s", "t", "o", "r", "y", ":">>

\* "PROFESSIONAL EXPERIENCE"
LineProfessional ==
    <<"P", "R", "O", "F", "E", "S", "S", "I", "O", "N", "A", "L", " ", "E", "X",
      "P", "E", "R", "I", "E", "N", "C", "E">>

\* "Key Projects"
LineKeyProjects ==
    <<"K", "e", "y", " ", "P", "r", "o", "j", "e", "c", "t", "s">>

\* "Education\r"
LineCarriageReturn ==
    <<"E", "d", "u", "c", "a", "t", "i", "o", "n", "\r">>

\* "Relevant Skills"
LineEndsLikeHeader ==
    <<"R", "e", "l", "e", "v", "a", "n", "t", " ", "S", "k", "i", "l", "l", "s">>

\* the basics block of a resume
TextContact ==
    <<"J", "a", "n", "e", " ", "D", "o", "e", "\n", "j", "a", "n", "e", ".", "d",
      "o", "e", "@", "e", "x", "a", "m", "p", "l", "e", ".", "c", "o", "m", "\n",
      "(", "5", "5", "5", ")", " ", "1", "2", "3", "-", "4", "5", "6", "7">>

\* "Experience", three body lines, "Education", two body lines
TextSections ==
    <<"E", "x", "p", "e", "r", "i", "e", "n", "c", "e", "\n", "A", "c", "m", "e",
      " ", "C", "o", "r", "p", "\n", "B", "u", "i", "l", "t", " ", "p", "a", "r",
      "s", "e", "r", "s", "\n", "2", "0", "1", "9", " ", "t", "o", " ", "2", "0",
      "2", "1", "\n", "E", "d", "u", "c", "a", "t", "i", "o", "n", "\n", "M",
      "I", "T", "\n", "B", "S", "c", " ", "2", "0", "1", "9">>

\* the experience section entered twice
TextReentered ==
    <<"I", "n", "t", "r", "o", "\n", "E", "x", "p", "e", "r", "i", "e", "n", "c",
      "e", "\n", "A", "c", "m", "e", "\n", "E", "d", "u", "c", "a", "t", "i",
      "o", "n", "\n", "M", "I", "T", "\n", "E", "x", "p", "e", "r", "i", "e",
      "n", "c", "e", "\n", "I", "n", "i", "t", "e", "c", "h">>

\* every kind of section, education with no content
TextAllSections ==
    <<"J", "a", "n", "e", " ", "D", "o", "e", "\n", "S", "u", "m", "m", "a", "r",
      "y", "\n", "E", "n", "g", "i", "n", "e", "e", "r", "\n", "\n", "S", "k",
      "i", "l", "l", "s", ":", "\n", "P", "y", "t", "h", "o", "n", "\n", "S",
      "Q", "L", "\n", "P", "r", "o", "j", "e", "c", "t", "s", "\n", "R", "e",
      "s", "u", "m", "e", " ", "p", "a", "r", "s", "e", "r", "\n", "E", "d", "u",
      "c", "a", "t", "i", "o", "n">>

\* the lines every text of up to MaxLines lines is made of
PoolLines ==
    {LineBlank,
     LineName,
     LineExperience,
     LineEducationColon,
     LineSkillsIndented,
     LineSixTokens}

\* more lines, each tried as a text of its own
ProbeLines ==
    {LineEmpty,
     LineFourTokens,
     LineStartsLikeHeader,
     LineEmail,
     LinePhone,
     LineSummary,
     LineSpaceBeforeColon,
     LineTwoColons,
     LineAboutMe,
     LineAboutMeWide,
     LineWorkHistory,
     LineProfessional,
     LineKeyProjects,
     LineCarriageReturn,
     LineEndsLikeHeader}

\* whole texts
ExampleTexts ==
    {TextContact,
     TextSections,
     TextReentered,
     TextAllSections, FAILED_EXTRACTION}

\* the raw_text arguments naive_structure_parser is run on
ParserTexts ==
    {join_newline(ls) : ls \in SeqsUpTo(PoolLines, MaxLines)} \cup ProbeLines \cup ExampleTexts

(***************************************************************************)
(* State                                                                   *)
(***************************************************************************)
VARIABLES
    pc,               \* main: where the run is
    pdfplumber,       \* the module global: TRUE when the library was imported
    ocr,              \* the module global: TRUE when PaddleOCR was initialized
    pdf,              \* the file at args.pdf_path
    task_dir,         \* whether /tmp/resume_tasks/<req_id> exists
    raw_text,         \* main's local ("" before it is assigned)
    used_ocr,         \* main's local
    structured_json,  \* main's local (Absent before it is assigned)
    ocr_txt,          \* the file ocr.txt
    json_file,        \* the file parsed_fallback.json, its content the record dumped
    stdout,           \* the lines printed to sys.stdout
    stderr,           \* the messages printed to sys.stderr
    exit_code,        \* <<>> while the process runs, then <<code>>
    history,          \* what the run has done so far (not program state)
    ppc,              \* naive_structure_parser, run on its own: where it is
    text,             \* its argument raw_text
    lines,            \* its local lines
    scanned,          \* how many of the lines Pass 1 has consumed
    scan,             \* its locals current_section and section_buffers
    clean_line,       \* its local of the last iteration
    detected,         \* its local of the last iteration that classified a line
    resume_data       \* its return value, NotReturned until it returns

main_vars ==
    <<pc, pdfplumber, ocr, pdf, task_dir, raw_text, used_ocr, structured_json,
      ocr_txt, json_file, stdout, stderr, exit_code, history>>

parser_vars == <<ppc, text, lines, scanned, scan, clean_line, detected, resume_data>>

vars == <<main_vars, parser_vars>>

NoHistory ==
    [native_calls     |-> 0,      \* calls of extract_text_pdfplumber
     native_returned  |-> NotReturned,  \* the text it returned
     ocr_calls        |-> 0,      \* calls of extract_text_paddleocr
     ocr_returned     |-> NotReturned,  \* the text it returned
     ocr_raised       |-> FALSE,  \* it raised
     write_raised     |-> FALSE,  \* writing ocr.txt raised
     ocr_txt_opens    |-> 0,      \* open(... 'ocr.txt', 'w') calls
     parser_calls     |-> 0,      \* calls of naive_structure_parser
     ocr_txt_at_start |-> Absent] \* ocr.txt as the run found it

ParserIdle ==
    /\ ppc = "idle"
    /\ text = <<>>
    /\ lines = <<>>
    /\ scanned = 0
    /\ scan = InitialScan
    /\ clean_line = <<>>
    /\ detected = None
    /\ resume_data = NotReturned

\* the process as main() is entered: the imports at the top of the file are done
Init ==
    /\ pc = "start"
    /\ pdfplumber \in BOOLEAN
    /\ ocr \in BOOLEAN
    /\ pdf \in PdfFiles
    /\ ocr_txt \in {Absent, File(StaleTranscript)}
    /\ task_dir = ocr_txt.exists
    /\ raw_text = <<>>
    /\ used_ocr = FALSE
    /\ structured_json = Absent
    /\ json_file = Absent
    /\ stdout = <<>>
    /\ stderr = IF ocr THEN <<>> ELSE <<"Warning: paddleocr not installed">>
    /\ exit_code = <<>>
    /\ history = [NoHistory EXCEPT !.ocr_txt_at_start = ocr_txt]
    /\ ParserIdle

(***************************************************************************)
(* main, step by step                                                      *)
(***************************************************************************)
\* parse_args and os.makedirs(task_dir, exist_ok=True)
MakeTaskDir ==
    /\ pc = "start"
    /\ task_dir' = TRUE
    /\ pc' = "extract"
    /\ UNCHANGED <<pdfplumber, ocr, pdf, raw_text, used_ocr, structured_json, ocr_txt,
                   json_file, stdout, stderr, exit_code, history, parser_vars>>

\* 1. raw_text = extract_text_pdfplumber(args.pdf_path); used_ocr = False
NativeExtract ==
    /\ pc = "extract"
    /\ ~pdfplumber \/ pdf.readable
    /\ raw_text' = extract_text_pdfplumber(pdfplumber, pdf.pages)
    /\ used_ocr' = FALSE
    /\ history' = [history EXCEPT !.native_calls = @ + 1,
                                  !.native_returned = Returned(raw_text')]
    /\ pc' = "threshold"
    /\ UNCHANGED <<pdfplumber, ocr, pdf, task_dir, structured_json, ocr_txt,
                   json_file, stdout, stderr, exit_code, parser_vars>>

\* 1. pdfplumber.open raises on a file it cannot read: nothing catches it
NativeExtractRaises ==
    /\ pc = "extract"
    /\ pdfplumber /\ ~pdf.readable
    /\ history' = [history EXCEPT !.native_calls = @ + 1]
    /\ stderr' = Append(stderr, "Traceback")
    /\ exit_code' = <<1>>
    /\ pc' = "crashed"
    /\ UNCHANGED <<pdfplumber, ocr, pdf, task_dir, raw_text, used_ocr, structured_json,
                   ocr_txt, json_file, stdout, parser_vars>>

\* 2. the if is not taken
KeepNativeText ==
    /\ pc = "threshold"
    /\ ~ocr_fallback_needed(raw_text)
    /\ pc' = "structure"
    /\ UNCHANGED <<pdfplumber, ocr, pdf, task_dir, raw_text, used_ocr, structured_json,
                   ocr_txt, json_file, stdout, stderr, exit_code, history, parser_vars>>

\* 2. the if is taken, the try block runs to its end
OcrFallback ==
    /\ pc = "threshold"
    /\ ocr_fallback_needed(raw_text)
    /\ ocr
    /\ \E results \in OcrResults :
          /\ raw_text' = extract_text_paddleocr(results)
          /\ ocr_txt' = File(raw_text')
          /\ history' = [history EXCEPT !.ocr_calls = @ + 1,
                                        !.ocr_returned = Returned(raw_text'),
                                        !.ocr_txt_opens = @ + 1]
    /\ used_ocr' = TRUE
    /\ pc' = "structure"
    /\ UNCHANGED <<pdfplumber, ocr, pdf, task_dir, structured_json, json_file, stdout,
                   stderr, exit_code, parser_vars>>

\* a mutant of OcrFallbackRaises: no handler, the exception ends the process
OcrFallbackRaises_uncaught ==
    /\ pc = "threshold"
    /\ ocr_fallback_needed(raw_text)
    /\ used_ocr' = TRUE
    /\ history' = [history EXCEPT !.ocr_calls = @ + 1, !.ocr_raised = TRUE]
    /\ stderr' = Append(stderr, "Traceback")
    /\ exit_code' = <<1>>
    /\ pc' = "crashed"
    /\ UNCHANGED <<pdfplumber, ocr, pdf, task_dir, raw_text, structured_json, ocr_txt,
                   json_file, stdout, parser_vars>>

\* a mutant of OcrFallbackRaises: the handler tries the extraction again
OcrFallbackRaises_retry ==
    /\ pc = "threshold"
    /\ ocr_fallback_needed(raw_text)
    /\ history.native_calls < 3
    /\ used_ocr' = TRUE
    /\ history' = [history EXCEPT !.ocr_calls = @ + 1, !.ocr_raised = TRUE]
    /\ stderr' = Append(stderr, "OCR Failed")
    /\ pc' = "extract"
    /\ UNCHANGED <<pdfplumber, ocr, pdf, task_dir, raw_text, structured_json, ocr_txt,
                   json_file, stdout, exit_code, parser_vars>>

\* 2. the if is taken and extract_text_paddleocr raises: the RuntimeError of an
\* uninitialized engine, or whatever ocr.ocr raises on this file
OcrFallbackRaises ==
    /\ pc = "threshold"
    /\ ocr_fallback_needed(raw_text)
    /\ used_ocr' = TRUE
    /\ history' = [history EXCEPT !.ocr_calls = @ + 1, !.ocr_raised = TRUE]
    /\ stderr' = Append(stderr, "OCR Failed")
    /\ raw_text' = FAILED_EXTRACTION
    /\ pc' = "structure"
    /\ UNCHANGED <<pdfplumber, ocr, pdf, task_dir, structured_json, ocr_txt, json_file,
                   stdout, exit_code, parser_vars>>

\* a mutant of OcrFallbackWriteRaises: the handler keeps the recognized text
OcrFallbackWriteRaises_keeps_text ==
    /\ pc = "threshold"
    /\ ocr_fallback_needed(raw_text)
    /\ ocr
    /\ \E results \in OcrResults :
          /\ raw_text' = extract_text_paddleocr(results)
          /\ history' = [history EXCEPT !.ocr_calls = @ + 1,
                                        !.ocr_returned = Returned(raw_text'),
                                        !.write_raised = TRUE,
                                        !.ocr_txt_opens = @ + 1]
    /\ used_ocr' = TRUE
    /\ stderr' = Append(stderr, "OCR Failed")
    /\ pc' = "structure"
    /\ UNCHANGED <<pdfplumber, ocr, pdf, task_dir, structured_json, ocr_txt, json_file,
                   stdout, exit_code, parser_vars>>

\* 2. the if is taken, extract_text_paddleocr returns, and open or f.write raises
\* inside the same try: ocr.txt is left as it was (open raised) or truncated with
\* nothing or only a part of the text in it (the write raised)
OcrFallbackWriteRaises ==
    /\ pc = "threshold"
    /\ ocr_fallback_needed(raw_text)
    /\ ocr
    /\ \E results \in OcrResults :
          LET recognized == extract_text_paddleocr(results)
          IN  /\ history' = [history EXCEPT !.ocr_calls = @ + 1,
                                            !.ocr_returned = Returned(recognized),
                                            !.write_raised = TRUE,
                                            !.ocr_txt_opens = @ + 1]
              /\ ocr_txt' \in {ocr_txt, File(<<>>),
                               File(SubSeq(recognized, 1, Len(recognized) \div 2))}
    /\ used_ocr' = TRUE
    /\ stderr' = Append(stderr, "OCR Failed")
    /\ raw_text' = FAILED_EXTRACTION
    /\ pc' = "structure"
    /\ UNCHANGED <<pdfplumber, ocr, pdf, task_dir, structured_json, json_file, stdout,
                   exit_code, parser_vars>>

\* 3. structured_json = naive_structure_parser(raw_text), stamped with _meta_method
StructureText ==
    /\ pc = "structure"
    /\ structured_json' = structure_text(raw_text, used_ocr)
    /\ history' = [history EXCEPT !.parser_calls = @ + 1]
    /\ pc' = "save"
    /\ UNCHANGED <<pdfplumber, ocr, pdf, task_dir, raw_text, used_ocr, ocr_txt,
                   json_file, stdout, stderr, exit_code, parser_vars>>

\* 4. json.dump(structured_json, f, indent=2) into parsed_fallback.json
SaveJson ==
    /\ pc = "save"
    /\ json_file' = File(structured_json)
    /\ pc' = "print"
    /\ UNCHANGED <<pdfplumber, ocr, pdf, task_dir, raw_text, used_ocr, structured_json,
                   ocr_txt, stdout, stderr, exit_code, history, parser_vars>>

\* print(out_path)
PrintPath ==
    /\ pc = "print"
    /\ stdout' = Append(stdout, OutPath)
    /\ pc' = "exit"
    /\ UNCHANGED <<pdfplumber, ocr, pdf, task_dir, raw_text, used_ocr, structured_json,
                   ocr_txt, json_file, stderr, exit_code, history, parser_vars>>

\* sys.exit(0)
Exit ==
    /\ pc = "exit"
    /\ exit_code' = <<0>>
    /\ pc' = "done"
    /\ UNCHANGED <<pdfplumber, ocr, pdf, task_dir, raw_text, used_ocr, structured_json,
                   ocr_txt, json_file, stdout, stderr, history, parser_vars>>

Next ==
    \/ MakeTaskDir
    \/ NativeExtract
    \/ NativeExtractRaises
    \/ KeepNativeText
    \/ OcrFallback
    \/ OcrFallbackRaises
    \/ OcrFallbackWriteRaises
    \/ StructureText
    \/ SaveJson
    \/ PrintPath
    \/ Exit

Spec == Init /\ [][Next]_vars

\* the process runs until it exits: no step of main waits for anything, so each
\* step is taken once main is at it (weak fairness).  For step 3 the fairness
\* condition WF_vars(StructureText) is written out, with
\* ENABLED <<StructureText>>_vars as what it is, pc = "structure": the step has
\* no other guard and always moves pc
FairSpec ==
    /\ Spec
    /\ WF_vars(MakeTaskDir)
    /\ WF_vars(NativeExtract)
    /\ WF_vars(NativeExtractRaises)
    /\ WF_vars(KeepNativeText)
    /\ WF_vars(OcrFallback)
    /\ WF_vars(OcrFallbackRaises)
    /\ WF_vars(OcrFallbackWriteRaises)
    /\ ([]<>(pc # "structure") \/ []<><<StructureText>>_vars)
    /\ WF_vars(SaveJson)
    /\ WF_vars(PrintPath)
    /\ WF_vars(Exit)

(***************************************************************************)
(* naive_structure_parser on its own, one line of Pass 1 at a time         *)
(***************************************************************************)
\* main does not run
MainIdle ==
    /\ pc = "idle"
    /\ pdfplumber = TRUE
    /\ ocr = TRUE
    /\ pdf = [readable |-> TRUE, pages |-> <<>>]
    /\ task_dir = FALSE
    /\ raw_text = <<>>
    /\ used_ocr = FALSE
    /\ structured_json = Absent
    /\ ocr_txt = Absent
    /\ json_file = Absent
    /\ stdout = <<>>
    /\ stderr = <<>>
    /\ exit_code = <<>>
    /\ history = NoHistory

\* the function is entered: resume_data, lines, current_section, section_buffers
ParserInit ==
    /\ MainIdle
    /\ ppc = "pass1"
    /\ text \in ParserTexts
    /\ lines = split_newline(text)
    /\ scanned = 0
    /\ scan = InitialScan
    /\ clean_line = <<>>
    /\ detected = None
    /\ resume_data = NotReturned

\* one iteration of "for line in lines"
ScanLine ==
    /\ ppc = "pass1"
    /\ scanned < Len(lines)
    /\ scanned' = scanned + 1
    /\ clean_line' = strip(lines[scanned'])
    /\ detected' = IF clean_line' = <<>> THEN detected ELSE is_header(clean_line')
    /\ scan' = scan_line(scan, lines[scanned'])
    /\ UNCHANGED <<ppc, text, lines, resume_data, main_vars>>

\* the rest of the function, from "Extract Basics" to the return
BuildRecord ==
    /\ ppc = "pass1"
    /\ scanned = Len(lines)
    /\ resume_data' = Returned(build_record(scan.section_buffers, text))
    /\ ppc' = "returned"
    /\ UNCHANGED <<text, lines, scanned, scan, clean_line, detected, main_vars>>

ParserNext ==
    \/ ScanLine
    \/ BuildRecord

ParserSpec == ParserInit /\ [][ParserNext]_vars

(***************************************************************************)
(* The claims about is_header and naive_structure_parser, stated on the    *)
(* lines of the input                                                      *)
(***************************************************************************)
IsBlank(line) == \A i \in 1..Len(line) : IsSpace(line[i])

TokenCount(line) == Len(split_whitespace(line))

Last(q) == q[Len(q)]

\* the lowercased line is one of section i's patterns, or one with a colon after it
SpelledAsHeaderOf(i, line) ==
    \E j \in 1..Len(SECTION_HEADERS[i].patterns) :
        \/ lower(line) = SECTION_HEADERS[i].patterns[j]
        \/ lower(line) = SECTION_HEADERS[i].patterns[j] \o <<":">>

IsHeaderLine(line) == ~IsBlank(line) /\ is_header(line) # None

IsContentLine(line) == ~IsBlank(line) /\ is_header(line) = None

\* the section line n falls under: that of the last header before it
SectionAt(n) ==
    LET headers == {j \in 1..(n - 1) : IsHeaderLine(lines[j])}
    IN  IF headers = {} THEN "basics" ELSE is_header(lines[SetMax(headers)])

\* the content lines among the first n that fall under section k, in input order
ContentIndices(k, n) ==
    SelectSeq([i \in 1..n |-> i],
              LAMBDA i : IsContentLine(lines[i]) /\ SectionAt(i) = k)

\* those lines as they stand in the input
VerbatimContent(k, n) ==
    LET at == ContentIndices(k, n)
    IN  [j \in 1..Len(at) |-> lines[at[j]]]

\* those lines without their leading and trailing whitespace
StrippedContent(k, n) ==
    LET at == ContentIndices(k, n)
    IN  [j \in 1..Len(at) |-> strip(lines[at[j]])]

\* the last classified line was put at the end of the current section's buffer
BufferedInCurrentSection ==
    /\ scan.section_buffers[scan.current_section] # <<>>
    /\ Last(scan.section_buffers[scan.current_section]) = clean_line

\* C6: a stripped line is a header of a section exactly when its lowercased form is,
\* as a whole, one of that section's patterns, with or without one colon after it,
\* and it has at most 4 tokens; a line of 5 or more tokens, and the line
\* "My Work Experience Summary", is no header and is buffered in the current section.
C6_HeaderIsWholeLinePattern ==
    (scanned > 0 /\ clean_line # <<>>) =>
        /\ \A i \in 1..Len(SECTION_HEADERS) :
              (detected = SECTION_HEADERS[i].section)
                  <=> (SpelledAsHeaderOf(i, clean_line) /\ TokenCount(clean_line) <= 4)
        /\ (detected = None)
              <=> ~\E i \in 1..Len(SECTION_HEADERS) :
                      SpelledAsHeaderOf(i, clean_line) /\ TokenCount(clean_line) <= 4
        /\ (TokenCount(clean_line) >= 5 \/ clean_line = LineFourTokens)
              => (detected = None /\ BufferedInCurrentSection)

\* a six-token line that starts with a header word was classified after a header:
\* no header, and buffered under education
C6_Witness ==
    /\ clean_line = strip(LineSixTokens)
    /\ TokenCount(clean_line) >= 5
    /\ detected = None
    /\ scan.current_section = "education"
    /\ Last(scan.section_buffers["education"]) = clean_line

\* one iteration of Pass 1, where Kept(line) is what a content line is buffered as
PassStep(Kept(_)) ==
    (scanned' = scanned + 1) =>
        LET line == lines[scanned']
        IN  /\ IsBlank(line) => scan' = scan
            /\ IsHeaderLine(line) =>
                  /\ scan'.current_section = is_header(line)
                  /\ scan'.section_buffers = scan.section_buffers
            /\ IsContentLine(line) =>
                  /\ scan'.current_section = scan.current_section
                  /\ scan'.section_buffers =
                        [scan.section_buffers EXCEPT
                            ![scan.current_section] = Append(@, Kept(line))]

Verbatim(line) == line

\* C7 as claimed: Pass 1 starts in basics; a blank line changes nothing; a header
\* line switches the section and is not buffered; every other line is appended
\* verbatim to the current section's buffer alone, so each buffer holds, in input
\* order, exactly the content lines that fall under its section.
C7_VerbatimSinglePass ==
    /\ [][PassStep(Verbatim)]_vars
    /\ [](\A k \in SectionKeys : scan.section_buffers[k] = VerbatimContent(k, scanned))
    /\ [](scanned = 0 => scan = InitialScan)

\* C7 as amended: the same, with every content line appended without its leading
\* and trailing whitespace.
C7_StrippedSinglePass ==
    /\ [][PassStep(strip)]_vars
    /\ [](\A k \in SectionKeys : scan.section_buffers[k] = StrippedContent(k, scanned))
    /\ [](scanned = 0 => scan = InitialScan)

\* a blank line, a header and an indented content line have gone through Pass 1
C7_Witness ==
    /\ scanned = 3
    /\ IsBlank(lines[1])
    /\ IsHeaderLine(lines[2])
    /\ lines[3] = LineSixTokens
    /\ scan.current_section = "skills"
    /\ scan.section_buffers["skills"] = <<strip(LineSixTokens)>>
    /\ \A k \in SectionKeys \ {"skills"} : scan.section_buffers[k] = <<>>

\* "Acme Corp\nBuilt parsers\n2019 to 2021"
DumpOfThreeLines ==
    <<"A", "c", "m", "e", " ", "C", "o", "r", "p", "\n",
      "B", "u", "i", "l", "t", " ", "p", "a", "r", "s", "e", "r", "s", "\n",
      "2", "0", "1", "9", " ", "t", "o", " ", "2", "0", "2", "1">>

\* "MIT\nBSc 2019"
DumpOfTwoLines ==
    <<"M", "I", "T", "\n", "B", "S", "c", " ", "2", "0", "1", "9">>

\* C8: experience and education each hold at most one element: one text_dump of the
\* section's buffered lines joined by newline when there are any, and nothing (not
\* an empty dump) when there are none; "Experience", 3 lines, "Education", 2 lines
\* gives one dump of the 3 lines and one of the 2.
C8_OneDumpPerSection ==
    resume_data.returned =>
        /\ \A k \in {"experience", "education"} :
              /\ Len(resume_data.value[k]) <= 1
              /\ StrippedContent(k, Len(lines)) # <<>> =>
                    resume_data.value[k] =
                        <<[text_dump |-> join_newline(StrippedContent(k, Len(lines)))]>>
              /\ StrippedContent(k, Len(lines)) = <<>> => resume_data.value[k] = <<>>
        /\ text = TextSections =>
              /\ resume_data.value.experience = <<[text_dump |-> DumpOfThreeLines]>>
              /\ resume_data.value.education = <<[text_dump |-> DumpOfTwoLines]>>

\* a text with every kind of header was parsed: experience has no header, education
\* has a header and no content, and both fields are empty
C8_Witness ==
    /\ resume_data.returned
    /\ text = TextAllSections
    /\ scan.current_section = "education"
    /\ resume_data.value.experience = <<>>
    /\ resume_data.value.education = <<>>
    /\ resume_data.value.skills.technical # <<>>

\* the first non-blank line of the input, 0 when there is none
FirstNonBlank ==
    LET solid == {i \in 1..Len(lines) : ~IsBlank(lines[i])}
    IN  IF solid = {} THEN 0 ELSE SetMin(solid)

\* C9 as claimed: full_name is the first non-blank line of the input when that line
\* is no header ("Jane Doe" before the email and phone lines), and stays empty when
\* it is a header or there is no non-blank line.
C9_FullNameIsFirstLine ==
    resume_data.returned =>
        /\ resume_data.value.basics.full_name =
              IF FirstNonBlank = 0 THEN <<>>
              ELSE IF is_header(lines[FirstNonBlank]) # None THEN <<>>
              ELSE lines[FirstNonBlank]
        /\ text = TextContact => resume_data.value.basics.full_name = LineName

\* C9 as amended: the same, the name being that line without its leading and
\* trailing whitespace.
C9_FullNameIsFirstLineStripped ==
    resume_data.returned =>
        /\ resume_data.value.basics.full_name =
              IF FirstNonBlank = 0 THEN <<>>
              ELSE IF is_header(lines[FirstNonBlank]) # None THEN <<>>
              ELSE strip(lines[FirstNonBlank])
        /\ text = TextContact => resume_data.value.basics.full_name = LineName

\* the basics block of a resume was parsed: name, email and phone are found
C9_Witness ==
    /\ resume_data.returned
    /\ text = TextContact
    /\ resume_data.value.basics.full_name = LineName
    /\ resume_data.value.basics.email = LineEmail
    /\ resume_data.value.basics.phone = LinePhone

(***************************************************************************)
(* The claims about main                                                   *)
(***************************************************************************)
\* the native extractor has returned a text of n characters once trimmed
NativeTrimmedLength == Len(strip(history.native_returned.value))

\* C1: when the native extractor returns at least 50 trimmed characters, the record
\* is stamped 'pdfplumber', the OCR extractor is never called and ocr.txt is never
\* written.
C1_NativeTextSkipsOcr ==
    (history.native_returned.returned /\ NativeTrimmedLength >= 50) =>
        /\ history.ocr_calls = 0
        /\ history.ocr_txt_opens = 0
        /\ ocr_txt = history.ocr_txt_at_start
        /\ structured_json # Absent => structured_json._meta_method = "pdfplumber"
        /\ json_file.exists => json_file.content._meta_method = "pdfplumber"
        /\ pc = "done" => json_file.exists

\* a run on exactly 50 trimmed characters has ended, beside a stale ocr.txt
C1_Witness ==
    /\ pc = "done"
    /\ history.native_returned.returned
    /\ NativeTrimmedLength = 50
    /\ Len(history.native_returned.value) > 50
    /\ json_file.exists
    /\ json_file.content._meta_method = "pdfplumber"
    /\ ocr_txt = File(StaleTranscript)

\* C2 as claimed: when the native extractor returns fewer than 50 trimmed
\* characters, the record is stamped 'paddleocr', and if the OCR extractor then
\* succeeds, ocr.txt exists at the end of the run and holds the record's raw_text.
C2_ShortTextUsesOcr ==
    (history.native_returned.returned /\ NativeTrimmedLength < 50) =>
        /\ structured_json # Absent => structured_json._meta_method = "paddleocr"
        /\ json_file.exists => json_file.content._meta_method = "paddleocr"
        /\ pc = "done" => json_file.exists
        /\ (pc = "done" /\ history.ocr_returned.returned) =>
              /\ ocr_txt.exists
              /\ ocr_txt.content = json_file.content.raw_text

\* C2 as amended: the same, ocr.txt holding the record's raw_text if the OCR
\* extractor succeeds and the write of ocr.txt does not raise.
C2_ShortTextUsesOcrIfWritten ==
    (history.native_returned.returned /\ NativeTrimmedLength < 50) =>
        /\ structured_json # Absent => structured_json._meta_method = "paddleocr"
        /\ json_file.exists => json_file.content._meta_method = "paddleocr"
        /\ pc = "done" => json_file.exists
        /\ (pc = "done" /\ history.ocr_returned.returned /\ ~history.write_raised) =>
              /\ ocr_txt.exists
              /\ ocr_txt.content = json_file.content.raw_text

\* a run on 49 trimmed characters (51 untrimmed) has ended: OCR succeeded and
\* ocr.txt, stale before, holds the record's raw_text
C2_Witness ==
    /\ pc = "done"
    /\ history.native_returned.returned
    /\ NativeTrimmedLength = 49
    /\ Len(history.native_returned.value) > 50
    /\ history.ocr_returned.returned
    /\ ~history.write_raised
    /\ history.ocr_txt_at_start = File(StaleTranscript)
    /\ json_file.content._meta_method = "paddleocr"
    /\ json_file.content.raw_text # <<>>
    /\ ocr_txt = File(json_file.content.raw_text)

\* C3 as claimed: the raw_text of every record written is there and is exactly the
\* text the extractor that ran returned: the native extractor's on the native path,
\* the OCR extractor's on the OCR path.
C3_RawTextIsExtractorText ==
    json_file.exists =>
        /\ "raw_text" \in DOMAIN json_file.content
        /\ ~used_ocr => json_file.content.raw_text = history.native_returned.value
        /\ used_ocr =>
              /\ history.ocr_returned.returned
              /\ json_file.content.raw_text = history.ocr_returned.value

\* C3 as amended: on the OCR path raw_text is the OCR extractor's text when the try
\* block (the extractor call and the write of ocr.txt) runs to its end, and the
\* sentinel "FAILED_EXTRACTION" when either raises.
C3_RawTextIsExtractorTextOrSentinel ==
    json_file.exists =>
        /\ "raw_text" \in DOMAIN json_file.content
        /\ ~used_ocr => json_file.content.raw_text = history.native_returned.value
        /\ (used_ocr /\ history.ocr_returned.returned /\ ~history.write_raised) =>
              json_file.content.raw_text = history.ocr_returned.value
        /\ (used_ocr /\ (history.ocr_raised \/ history.write_raised)) =>
              json_file.content.raw_text = FAILED_EXTRACTION

\* a record with the OCR text was written: the text differs from the native one and
\* keeps the whitespace around it
C3_Witness ==
    /\ json_file.exists
    /\ used_ocr
    /\ history.ocr_returned.returned
    /\ ~history.write_raised
    /\ json_file.content.raw_text = history.ocr_returned.value
    /\ json_file.content.raw_text # history.native_returned.value
    /\ json_file.content.raw_text # strip(json_file.content.raw_text)
    /\ json_file.content.experience # <<>>

\* the run has ended with the path printed and code 0
EndedWell ==
    /\ pc = "done"
    /\ exit_code = <<0>>
    /\ json_file.exists
    /\ stdout = <<OutPath>>

\* C4: when the fallback is taken and the OCR extractor raises, main catches it, the
\* raw text is the sentinel, parsed_fallback.json is still written, its path
\* printed, and the process exits with code 0: the failure never ends the process.
C4_OcrFailureIsCaught ==
    /\ [](history.ocr_raised =>
            /\ pc # "crashed"
            /\ exit_code \in {<<>>, <<0>>}
            /\ raw_text = FAILED_EXTRACTION
            /\ json_file.exists => json_file.content.raw_text = FAILED_EXTRACTION)
    /\ (history.ocr_raised
            ~> (EndedWell /\ json_file.content.raw_text = FAILED_EXTRACTION))

\* a run without an OCR engine has ended well on the sentinel
C4_Witness ==
    /\ EndedWell
    /\ ~ocr
    /\ history.ocr_raised
    /\ history.ocr_calls = 1
    /\ json_file.content.raw_text = FAILED_EXTRACTION
    /\ "OCR Failed" = stderr[Len(stderr)]

\* the order of main's steps
Rank(at) ==
    CASE at = "start"     -> 0
      [] at = "extract"   -> 1
      [] at = "threshold" -> 2
      [] at = "structure" -> 3
      [] at = "save"      -> 4
      [] at = "print"     -> 5
      [] at = "exit"      -> 6
      [] at = "done"      -> 7
      [] at = "crashed"   -> 7
      [] OTHER            -> 0

\* C5: the run goes extract, maybe OCR fallback, structure and emit, never back and
\* never twice: the native extractor is called exactly once, the OCR extractor and
\* the structure builder at most once; a run that reaches structure-and-emit prints
\* exactly one line, the path, only after the JSON file is written, and then exits
\* with code 0.
C5_LinearPipeline ==
    /\ [][Rank(pc') > Rank(pc)]_vars
    /\ [](/\ history.native_calls <= 1
          /\ history.ocr_calls <= 1
          /\ history.parser_calls <= 1)
    /\ [](pc \notin {"start", "extract"} => history.native_calls = 1)
    /\ [](pc \in {"print", "exit", "done"} =>
            (json_file.exists /\ history.parser_calls = 1))
    /\ [](stdout # <<>> => (stdout = <<OutPath>> /\ json_file.exists))
    /\ [](pc = "done" => EndedWell)
    /\ (pc = "structure" ~> EndedWell)

\* a run that went through the OCR fallback has ended: each step ran once
C5_Witness ==
    /\ EndedWell
    /\ history.native_calls = 1
    /\ history.ocr_calls = 1
    /\ history.parser_calls = 1
    /\ history.ocr_returned.returned

\* the record naive_structure_parser builds from the sentinel, stamped 'paddleocr'
SentinelRecord ==
    [basics       |-> [full_name |-> FAILED_EXTRACTION,
                       email     |-> <<>>,
                       phone     |-> <<>>,
                       linkedin  |-> <<>>],
     summary      |-> <<>>,
     experience   |-> <<>>,
     education    |-> <<>>,
     skills       |-> [technical |-> <<>>, tools |-> <<>>, soft |-> <<>>],
     raw_text     |-> FAILED_EXTRACTION,
     _meta_method |-> "paddleocr"]

\* C10: when the OCR extractor raises, and just the same when it succeeds and the
\* write of ocr.txt raises, the record written has the sentinel as raw_text and as
\* basics.full_name, 'paddleocr' as _meta_method, and every other field empty.
C10_SentinelRecord ==
    (json_file.exists /\ (history.ocr_raised \/ history.write_raised)) =>
        json_file.content = SentinelRecord

\* OCR recognized a text, the write of ocr.txt raised, and the run has ended on
\* the sentinel record
C10_Witness ==
    /\ pc = "done"
    /\ history.write_raised
    /\ history.ocr_returned.returned
    /\ history.ocr_returned.value # <<>>
    /\ json_file.content = SentinelRecord

====
